---------------------------- MODULE Spec2Model ----------------------------
(* Model of minestudio/simulator/callbacks/barrier_box.py:                 *)
(* BarrierBoxCallback (construction, create_from_conf, the fill-command    *)
(* generator and the after_reset hook driving the simulator).              *)
EXTENDS Integers, Sequences, FiniteSets, TLC

VARIABLES
    callback,    \* <<>> or <<instance>>: the BarrierBoxCallback object held by the caller
    built,       \* <<>> or <<instance>>: the field values as __init__ stored them
    outcome,     \* <<>> or <<record>>: what the last constructor / factory call did
    genLast,     \* <<>> or <<[args, out]>>: last direct _generate_box_commands call
    genAgain,    \* <<>> or <<out>>: result of repeating that call with the same inputs
    pc,          \* position of the reset hook
    agentPos,    \* <<x, z>> of the agent in the freshly reset world
    argObs,      \* obs argument handed to after_reset
    argInfo,     \* info argument handed to after_reset
    commands,    \* local `commands` of after_reset
    idx,         \* 1-based position of the for loop in `commands`
    obs,         \* local `obs` of after_reset
    info,        \* local `info` of after_reset
    world,       \* fill commands the simulator has applied since the reset
    attempts,    \* every command handed to execute_cmd since the reset
    results,     \* the <<obs, info>> each returning execute_cmd call gave back
    wrapCalls,   \* every <<obs, info>> handed to _wrap_obs_info since the reset
    ret,         \* <<>> or <<pair>>: what after_reset returned
    exc,         \* <<>> or <<exception>>: what after_reset raised
    history      \* the command sequence each reset that returned had submitted

vars == <<callback, built, outcome, genLast, genAgain, pc, agentPos, argObs,
          argInfo, commands, idx, obs, info, world, attempts, results, wrapCalls,
          ret, exc, history>>

ctorVars == <<callback, built, outcome>>
genVars == <<genLast, genAgain>>
hookVars == <<pc, agentPos, argObs, argInfo, commands, idx, obs, info, world,
              attempts, results, wrapCalls, ret, exc, history>>

-----------------------------------------------------------------------------
(* Bounds of the explored inputs *)
MaxSize == 2
MaxHeight == 1
MaxCoord == 1
MaxBase == 1
MaxAgent == 1
MaxResets == 2

(* Defaults of the constructor and of the factory *)
DefaultSize == 25
DefaultHeight == 10
DefaultBlockType == "barrier"
DefaultIncludeFloor == FALSE
DefaultIncludeCeiling == FALSE

Sizes == (1..MaxSize) \cup {DefaultSize}
Heights == (0..MaxHeight) \cup {DefaultHeight}
BlockTypeInputs == {"barrier", "bedrock", "glass", "stone", "Barrier"}
Coords == (-MaxCoord)..MaxCoord
Bases == 0..MaxBase
AgentCoords == 0..MaxAgent

None == <<>>
Some(v) == <<v>>

self == callback[1]

-----------------------------------------------------------------------------
(* __init__ *)
valid_blocks == <<"barrier", "bedrock", "glass">>

InList(v, list) == \E i \in 1..Len(list) : list[i] = v

ValueErrorOf(block_type) ==
    [kind |-> "ValueError",
     msg  |-> [text   |-> "block_type must be one of {valid_blocks}, got '{self.block_type}'",
               one_of |-> valid_blocks,
               got    |-> block_type]]

\* Variant of __init__ without the block type validation
__init__Unvalidated(size, height, block_type, include_floor, include_ceiling) ==
    [ok |-> TRUE,
     inst |-> Some([size |-> size, height |-> height, block_type |-> block_type,
                    include_floor |-> include_floor,
                    include_ceiling |-> include_ceiling]),
     exc |-> None]

\* The outcome of BarrierBoxCallback(size, height, block_type, include_floor,
\* include_ceiling): the instance, or the exception that leaves no instance.
__init__(size, height, block_type, include_floor, include_ceiling) ==
    LET inst == [size |-> size, height |-> height, block_type |-> block_type,
                 include_floor |-> include_floor,
                 include_ceiling |-> include_ceiling]
    IN  IF ~InList(inst.block_type, valid_blocks)
        THEN [ok |-> FALSE, inst |-> None, exc |-> Some(ValueErrorOf(inst.block_type))]
        ELSE [ok |-> TRUE, inst |-> Some(inst), exc |-> None]

-----------------------------------------------------------------------------
(* _generate_box_commands *)

\* f"/fill {a} {b} {c} {d} {e} {f} {block}": the space-separated tokens, in order
Fill(a, b, c, d, e, f, block) == <<"/fill", a, b, c, d, e, f, block>>

\* The generator's body with the half size, the ceiling level and the order of
\* the two optional slabs as parameters
BoxCommandsWith(s, center_x, center_z, base_y, half_size, ceiling_y, ceiling_first) ==
    LET block == "minecraft:" \o s.block_type
        x_min == center_x - half_size
        x_max == center_x + half_size
        z_min == center_z - half_size
        z_max == center_z + half_size
        y_min == base_y
        y_max == base_y + s.height
        walls == << Fill(x_min, y_min, z_min, x_max, y_max, z_min, block),
                    Fill(x_min, y_min, z_max, x_max, y_max, z_max, block),
                    Fill(x_min, y_min, z_min, x_min, y_max, z_max, block),
                    Fill(x_max, y_min, z_min, x_max, y_max, z_max, block) >>
        floor == IF s.include_floor
                 THEN << Fill(x_min, y_min, z_min, x_max, y_min, z_max, block) >>
                 ELSE << >>
        ceiling == IF s.include_ceiling
                   THEN << Fill(x_min, ceiling_y, z_min, x_max, ceiling_y, z_max, block) >>
                   ELSE << >>
    IN  IF ceiling_first THEN walls \o ceiling \o floor
                         ELSE walls \o floor \o ceiling

\* Variant of the generator that puts the ceiling at the base level
GenerateCeilingAtBase(s, center_x, center_z, base_y) ==
    BoxCommandsWith(s, center_x, center_z, base_y, s.size \div 2, base_y, FALSE)

\* Variant of the generator that appends the ceiling before the floor
GenerateCeilingFirst(s, center_x, center_z, base_y) ==
    BoxCommandsWith(s, center_x, center_z, base_y, s.size \div 2,
                    base_y + s.height, TRUE)

\* Variant of the generator whose half size rounds up
GenerateHalfRoundedUp(s, center_x, center_z, base_y) ==
    BoxCommandsWith(s, center_x, center_z, base_y, (s.size + 1) \div 2,
                    base_y + s.height, FALSE)

_generate_box_commands(s, center_x, center_z, base_y) ==
    LET half_size == s.size \div 2
        block == "minecraft:" \o s.block_type
        x_min == center_x - half_size
        x_max == center_x + half_size
        z_min == center_z - half_size
        z_max == center_z + half_size
        y_min == base_y
        y_max == base_y + s.height
        walls == << Fill(x_min, y_min, z_min, x_max, y_max, z_min, block),
                    Fill(x_min, y_min, z_max, x_max, y_max, z_max, block),
                    Fill(x_min, y_min, z_min, x_min, y_max, z_max, block),
                    Fill(x_max, y_min, z_min, x_max, y_max, z_max, block) >>
        floor == IF s.include_floor
                 THEN << Fill(x_min, y_min, z_min, x_max, y_min, z_max, block) >>
                 ELSE << >>
        ceiling == IF s.include_ceiling
                   THEN << Fill(x_min, y_max, z_min, x_max, y_max, z_max, block) >>
                   ELSE << >>
    IN  walls \o floor \o ceiling

-----------------------------------------------------------------------------
(* Instances a successful construction can produce *)
Instances ==
    { __init__(s, h, b, f, c).inst[1] :
        <<s, h, b, f, c>> \in
            { t \in Sizes \X Heights \X BlockTypeInputs \X BOOLEAN \X BOOLEAN :
                __init__(t[1], t[2], t[3], t[4], t[5]).ok } }

HookIdle ==
    /\ pc = "idle"
    /\ agentPos = <<0, 0>>
    /\ argObs = None /\ argInfo = None
    /\ commands = <<>> /\ idx = 1
    /\ obs = None /\ info = None
    /\ world = <<>> /\ attempts = <<>> /\ results = <<>> /\ wrapCalls = <<>>
    /\ ret = None /\ exc = None
    /\ history = <<>>

\* Variant of the direct call in which the generator keeps its y_max in the
\* instance
GenerateCallStoring(cx, cz, by) ==
    /\ callback # None
    /\ pc \in {"idle", "returned", "raised"}
    /\ genLast' = Some([args |-> <<cx, cz, by>>,
                        out  |-> _generate_box_commands(self, cx, cz, by)])
    /\ genAgain' = None
    /\ callback' = Some([self EXCEPT !.height = by + self.height])
    /\ UNCHANGED <<built, outcome, hookVars>>

\* Direct call of the generator by a caller holding the instance
GenerateCall(cx, cz, by) ==
    /\ callback # None
    /\ pc \in {"idle", "returned", "raised"}
    /\ genLast' = Some([args |-> <<cx, cz, by>>,
                        out  |-> _generate_box_commands(self, cx, cz, by)])
    /\ genAgain' = None
    /\ UNCHANGED <<ctorVars, hookVars>>

\* The same call made a second time with identical inputs
GenerateAgain ==
    /\ callback # None
    /\ pc \in {"idle", "returned", "raised"}
    /\ genLast # None
    /\ genAgain = None
    /\ genAgain' = Some(_generate_box_commands(self, genLast[1].args[1],
                                               genLast[1].args[2],
                                               genLast[1].args[3]))
    /\ UNCHANGED <<ctorVars, genLast, hookVars>>

InitGen ==
    /\ \E i \in Instances : callback = Some(i) /\ built = Some(i)
    /\ outcome = None
    /\ genLast = None /\ genAgain = None
    /\ HookIdle

NextGen ==
    \/ \E cx \in Coords, cz \in Coords, by \in Bases : GenerateCall(cx, cz, by)
    \/ GenerateAgain

SpecGen == InitGen /\ [][NextGen]_vars

-----------------------------------------------------------------------------
(* The simulator, reached through sim.env.execute_cmd and sim._wrap_obs_info *)

\* execute_cmd(command) when it succeeds: the world edit is applied and the
\* simulator reports (obs, reward, done, info) of the edited world.
execute_cmd(w, pos, command) ==
    LET w2 == Append(w, command)
    IN  [world  |-> w2,
         obs    |-> [src |-> "cmd", n |-> Len(w2), pos |-> pos],
         reward |-> 0,
         done   |-> FALSE,
         info   |-> [src |-> "cmd", n |-> Len(w2), pos |-> pos]]

_wrap_obs_info(o, i) == << [wrapped |-> o], [wrapped |-> i] >>

\* The framework resets the environment and is about to call the hook with
\* the observation and info of the reset.
EnvReset(x, z) ==
    /\ callback # None
    /\ pc \in {"idle", "returned", "raised"}
    /\ Len(history) < MaxResets
    /\ pc' = "reset"
    /\ agentPos' = <<x, z>>
    /\ world' = <<>>
    /\ argObs' = Some([src |-> "reset", n |-> 0, pos |-> <<x, z>>])
    /\ argInfo' = Some([src |-> "reset", n |-> 0, pos |-> <<x, z>>])
    /\ attempts' = <<>>
    /\ results' = <<>>
    /\ wrapCalls' = <<>>
    /\ ret' = None
    /\ exc' = None
    /\ commands' = <<>>
    /\ idx' = 1
    /\ obs' = None
    /\ info' = None
    /\ UNCHANGED <<ctorVars, genVars, history>>

-----------------------------------------------------------------------------
(* after_reset *)

\* Entry of after_reset up to the head of the for loop
AfterResetEnter ==
    /\ pc = "reset"
    /\ LET half_size == self.size \div 2
       IN  commands' = _generate_box_commands(self, 0, 0, half_size)
    /\ obs' = argObs
    /\ info' = argInfo
    /\ idx' = 1
    /\ pc' = "loop"
    /\ UNCHANGED <<ctorVars, genVars, agentPos, argObs, argInfo, world,
                   attempts, results, wrapCalls, ret, exc, history>>

\* One iteration of the loop whose execute_cmd call returns
ExecuteCmdReturns ==
    /\ pc = "loop"
    /\ idx <= Len(commands)
    /\ LET r == execute_cmd(world, agentPos, commands[idx])
       IN  /\ world' = r.world
           /\ obs' = Some(r.obs)
           /\ info' = Some(r.info)
           /\ results' = Append(results, <<r.obs, r.info>>)
    /\ attempts' = Append(attempts, commands[idx])
    /\ idx' = idx + 1
    /\ UNCHANGED <<ctorVars, genVars, pc, agentPos, argObs, argInfo, commands,
                   wrapCalls, ret, exc, history>>

\* Variant of the raising iteration in which the loop swallows the exception
\* and goes on with the next command
ExecuteCmdRaisesSwallowed ==
    /\ pc = "loop"
    /\ idx <= Len(commands)
    /\ attempts' = Append(attempts, commands[idx])
    /\ exc' = Some([kind |-> "SimulatorError", at |-> idx])
    /\ idx' = idx + 1
    /\ UNCHANGED <<ctorVars, genVars, pc, agentPos, argObs, argInfo, commands,
                   obs, info, world, results, wrapCalls, ret, history>>

\* One iteration of the loop whose execute_cmd call raises: nothing in
\* after_reset catches it, so it leaves after_reset
ExecuteCmdRaises ==
    /\ pc = "loop"
    /\ idx <= Len(commands)
    /\ attempts' = Append(attempts, commands[idx])
    /\ exc' = Some([kind |-> "SimulatorError", at |-> idx])
    /\ pc' = "raised"
    /\ UNCHANGED <<ctorVars, genVars, agentPos, argObs, argInfo, commands, idx,
                   obs, info, world, results, wrapCalls, ret, history>>

\* Variant of the return that wraps the obs and info after_reset was called with
WrapAndReturnStale ==
    /\ pc = "loop"
    /\ idx > Len(commands)
    /\ wrapCalls' = Append(wrapCalls, <<argObs, argInfo>>)
    /\ LET w == _wrap_obs_info(argObs, argInfo)
       IN  /\ obs' = w[1]
           /\ info' = w[2]
           /\ ret' = Some(<<w[1], w[2]>>)
    /\ pc' = "returned"
    /\ history' = Append(history, attempts)
    /\ UNCHANGED <<ctorVars, genVars, agentPos, argObs, argInfo, commands, idx,
                   world, attempts, results, exc>>

\* The loop is exhausted: wrap and return
WrapAndReturn ==
    /\ pc = "loop"
    /\ idx > Len(commands)
    /\ wrapCalls' = Append(wrapCalls, <<obs, info>>)
    /\ LET w == _wrap_obs_info(obs, info)
       IN  /\ obs' = w[1]
           /\ info' = w[2]
           /\ ret' = Some(<<w[1], w[2]>>)
    /\ pc' = "returned"
    /\ history' = Append(history, attempts)
    /\ UNCHANGED <<ctorVars, genVars, agentPos, argObs, argInfo, commands, idx,
                   world, attempts, results, exc>>

LifecycleArgs == { <<0, 0, 0>>, <<MaxCoord, -MaxCoord, MaxBase>> }

Init ==
    /\ \E i \in Instances : callback = Some(i) /\ built = Some(i)
    /\ outcome = None
    /\ genLast = None /\ genAgain = None
    /\ HookIdle

Next ==
    \/ \E x \in AgentCoords, z \in AgentCoords : EnvReset(x, z)
    \/ AfterResetEnter
    \/ ExecuteCmdReturns
    \/ ExecuteCmdRaises
    \/ WrapAndReturn
    \/ \E a \in LifecycleArgs : GenerateCall(a[1], a[2], a[3])
    \/ GenerateAgain

Spec == Init /\ [][Next]_vars

-----------------------------------------------------------------------------
(* create_from_conf *)

\* dict.get(key, default)
Get(m, key, default) == IF key \in DOMAIN m THEN m[key] ELSE default

\* Variant of create_from_conf that builds an all-defaults callback when the
\* barrier_box key is absent
create_from_confAlways(data) ==
    LET box_config == Get(data, "barrier_box", [k \in {} |-> 0])
        r == __init__(Get(box_config, "size", DefaultSize),
                      Get(box_config, "height", DefaultHeight),
                      Get(box_config, "block_type", DefaultBlockType),
                      Get(box_config, "include_floor", DefaultIncludeFloor),
                      Get(box_config, "include_ceiling", DefaultIncludeCeiling))
    IN  [ok |-> r.ok, ret |-> r.inst, exc |-> r.exc]

\* create_from_conf, from the mapping load_data_from_conf(source) returned:
\* the returned value (None or the instance), or the exception of __init__
create_from_conf(data) ==
    IF "barrier_box" \in DOMAIN data
    THEN LET box_config == data["barrier_box"]
             r == __init__(Get(box_config, "size", DefaultSize),
                           Get(box_config, "height", DefaultHeight),
                           Get(box_config, "block_type", DefaultBlockType),
                           Get(box_config, "include_floor", DefaultIncludeFloor),
                           Get(box_config, "include_ceiling", DefaultIncludeCeiling))
         IN  [ok |-> r.ok, ret |-> r.inst, exc |-> r.exc]
    ELSE [ok |-> TRUE, ret |-> None, exc |-> None]

BoxKeys == {"size", "height", "block_type", "include_floor", "include_ceiling"}

\* Every barrier_box mapping: any subset of the keys, any of the input values
BoxConfigs ==
    { [k \in K |-> full[k]] :
        K \in SUBSET BoxKeys,
        full \in [size : Sizes, height : Heights, block_type : BlockTypeInputs,
                  include_floor : BOOLEAN, include_ceiling : BOOLEAN] }

\* Every loaded configuration: with or without the barrier_box key, with or
\* without a key of another callback
Datas ==
    { [k \in {"barrier_box"} |-> bc] : bc \in BoxConfigs }
    \cup { [k \in {"barrier_box", "task"} |->
               IF k = "barrier_box" THEN bc ELSE [name |-> "explore"]] :
           bc \in BoxConfigs }
    \cup { [k \in {"task"} |-> [name |-> "explore"]], [k \in {} |-> 0] }

\* callback = BarrierBoxCallback(size, height, block_type, include_floor, include_ceiling)
Construct(size, height, block_type, include_floor, include_ceiling) ==
    /\ callback = None
    /\ outcome = None
    /\ LET r == __init__(size, height, block_type, include_floor, include_ceiling)
       IN  /\ callback' = r.inst
           /\ built' = r.inst
           /\ outcome' = Some([op |-> "__init__",
                               input |-> [size |-> size, height |-> height,
                                          block_type |-> block_type,
                                          include_floor |-> include_floor,
                                          include_ceiling |-> include_ceiling],
                               ok |-> r.ok, ret |-> r.inst, exc |-> r.exc])
    /\ UNCHANGED <<genVars, hookVars>>

\* callback = BarrierBoxCallback.create_from_conf(source)
CreateFromConf(data) ==
    /\ callback = None
    /\ outcome = None
    /\ LET r == create_from_conf(data)
       IN  /\ callback' = r.ret
           /\ built' = r.ret
           /\ outcome' = Some([op |-> "create_from_conf", input |-> data,
                               ok |-> r.ok, ret |-> r.ret, exc |-> r.exc])
    /\ UNCHANGED <<genVars, hookVars>>

InitConf ==
    /\ callback = None /\ built = None /\ outcome = None
    /\ genLast = None /\ genAgain = None
    /\ HookIdle

NextConf ==
    \/ \E s \in Sizes, h \in Heights, b \in BlockTypeInputs,
          f \in BOOLEAN, c \in BOOLEAN : Construct(s, h, b, f, c)
    \/ \E data \in Datas : CreateFromConf(data)

SpecConf == InitConf /\ [][NextConf]_vars

-----------------------------------------------------------------------------
(* Properties *)

\* The six coordinates of a fill command, as the simulator parses them
X1(c) == c[2]
Y1(c) == c[3]
Z1(c) == c[4]
X2(c) == c[5]
Y2(c) == c[6]
Z2(c) == c[7]

IsPrefix(p, q) == Len(p) <= Len(q) /\ p = SubSeq(q, 1, Len(p))

SetMin(S) == CHOOSE m \in S : \A e \in S : m <= e
SetMax(S) == CHOOSE m \in S : \A e \in S : m >= e

Flag(b) == IF b THEN 1 ELSE 0

\* c covers the whole footprint of the box of half size half centred at (x, z)
FullFootprint(c, x, z, half) ==
    /\ X1(c) = x - half /\ X2(c) = x + half
    /\ Z1(c) = z - half /\ Z2(c) = z + half

IsNorth(c, x, z, half) ==
    X1(c) = x - half /\ X2(c) = x + half /\ Z1(c) = z - half /\ Z2(c) = z - half
IsSouth(c, x, z, half) ==
    X1(c) = x - half /\ X2(c) = x + half /\ Z1(c) = z + half /\ Z2(c) = z + half
IsWest(c, x, z, half) ==
    X1(c) = x - half /\ X2(c) = x - half /\ Z1(c) = z - half /\ Z2(c) = z + half
IsEast(c, x, z, half) ==
    X1(c) = x + half /\ X2(c) = x + half /\ Z1(c) = z - half /\ Z2(c) = z + half

\* list is north, south, west, east, then the floor if enabled, then the
\* ceiling if enabled, of the box centred at (x, z); the walls give the levels
OrderedFaces(list, x, z) ==
    LET half == self.size \div 2
        n == 4 + Flag(self.include_floor) + Flag(self.include_ceiling)
    IN  /\ Len(list) = n
        /\ IsNorth(list[1], x, z, half)
        /\ IsSouth(list[2], x, z, half)
        /\ IsWest(list[3], x, z, half)
        /\ IsEast(list[4], x, z, half)
        /\ \A i \in 1..4 : Y1(list[i]) = Y1(list[1]) /\ Y2(list[i]) = Y2(list[1])
        /\ self.include_floor =>
              /\ FullFootprint(list[5], x, z, half)
              /\ Y1(list[5]) = Y1(list[1]) /\ Y2(list[5]) = Y1(list[1])
        /\ self.include_ceiling =>
              /\ FullFootprint(list[n], x, z, half)
              /\ Y1(list[n]) = Y2(list[1]) /\ Y2(list[n]) = Y2(list[1])

\* C1: every fill command after_reset submits has its y coordinates within
\* [0, height] (walls from 0 to height, floor at 0, ceiling at height) and its
\* x/z coordinates within [-(size // 2), size // 2].
C1_BoxAtOriginBaseZero ==
    \A i \in 1..Len(attempts) :
        LET c == attempts[i]
            half == self.size \div 2
        IN  /\ Y1(c) \in 0..self.height /\ Y2(c) \in 0..self.height
            /\ {X1(c), X2(c), Z1(c), Z2(c)} \subseteq (-half)..half
            /\ i <= 4 => Y1(c) = 0 /\ Y2(c) = self.height

\* C2: construction succeeds iff block_type is 'barrier', 'bedrock' or
\* 'glass'; on success the instance stores the given block_type unchanged, on
\* failure there is no instance and the ValueError names the offending value
\* and the valid set.
C2_ConstructionIffValidBlock ==
    (outcome # None /\ outcome[1].op = "__init__") =>
        LET o == outcome[1]
            bt == o.input.block_type
        IN  IF bt \in {"barrier", "bedrock", "glass"}
            THEN /\ o.ok /\ o.exc = None
                 /\ o.ret # None /\ callback = o.ret
                 /\ callback[1].block_type = bt
            ELSE /\ ~o.ok /\ o.ret = None /\ callback = None
                 /\ o.exc # None
                 /\ o.exc[1].kind = "ValueError"
                 /\ o.exc[1].msg.got = bt
                 /\ o.exc[1].msg.one_of = <<"barrier", "bedrock", "glass">>

C2_Witness ==
    /\ outcome # None
    /\ outcome[1].op = "__init__"
    /\ outcome[1].input.block_type = "Barrier"
    /\ ~outcome[1].ok
    /\ callback = None

\* C3: the generator returns 4 + (1 if include_floor) + (1 if include_ceiling)
\* commands; the floor spans the full footprint at y = base_y and the ceiling
\* spans the full footprint at y = base_y + height.
C3_CommandCount ==
    genLast # None =>
        LET a == genLast[1].args
            out == genLast[1].out
            half == self.size \div 2
            n == 4 + Flag(self.include_floor) + Flag(self.include_ceiling)
        IN  /\ Len(out) = n
            /\ (~self.include_floor /\ ~self.include_ceiling) => Len(out) = 4
            /\ (self.include_floor # self.include_ceiling) => Len(out) = 5
            /\ (self.include_floor /\ self.include_ceiling) => Len(out) = 6
            /\ self.include_floor =>
                  /\ FullFootprint(out[5], a[1], a[2], half)
                  /\ Y1(out[5]) = a[3] /\ Y2(out[5]) = a[3]
            /\ self.include_ceiling =>
                  /\ FullFootprint(out[n], a[1], a[2], half)
                  /\ Y1(out[n]) = a[3] + self.height
                  /\ Y2(out[n]) = a[3] + self.height

C3_Witness ==
    /\ genLast # None
    /\ self.include_floor /\ self.include_ceiling
    /\ self.height = 10 /\ self.size = 25
    /\ genLast[1].args = <<1, -1, 1>>
    /\ Len(genLast[1].out) = 6
    /\ genLast[1].out[6] = <<"/fill", -11, 11, -13, 13, 11, 11,
                             "minecraft:" \o self.block_type>>

\* C4: the generated list and the execute_cmd calls of after_reset are in the
\* order north, south, west, east, floor (if enabled), ceiling (if enabled);
\* after_reset submits the commands one by one in list order, each once.
C4_CommandOrder ==
    /\ genLast # None =>
          OrderedFaces(genLast[1].out, genLast[1].args[1], genLast[1].args[2])
    /\ pc \in {"loop", "returned", "raised"} =>
          /\ OrderedFaces(commands, 0, 0)
          /\ IsPrefix(attempts, commands)
    /\ pc = "loop" => Len(attempts) = idx - 1
    /\ pc = "returned" => attempts = commands /\ world = commands

C4_Witness ==
    /\ pc = "returned"
    /\ Len(attempts) = 6
    /\ self.height = 10 /\ self.size = 25
    /\ attempts[5] # attempts[6]

\* C5: each wall spans y from base_y to base_y + height and lies on its face
\* of the box from (x - half, y, z - half) to (x + half, y + height, z + half),
\* half = size // 2; for size 25, height 10 at (0, 0), base 0 the box is
\* x in [-12, 12], z in [-12, 12], y in [0, 10].
C5_WallFaces ==
    genLast # None =>
        LET a == genLast[1].args
            out == genLast[1].out
            half == self.size \div 2
            block == "minecraft:" \o self.block_type
        IN  /\ Len(out) >= 4
            /\ \A i \in 1..4 :
                  Y1(out[i]) = a[3] /\ Y2(out[i]) = a[3] + self.height
            /\ IsNorth(out[1], a[1], a[2], half)
            /\ IsSouth(out[2], a[1], a[2], half)
            /\ IsWest(out[3], a[1], a[2], half)
            /\ IsEast(out[4], a[1], a[2], half)
            /\ (self.size = 25 /\ self.height = 10 /\ a = <<0, 0, 0>>) =>
                  SubSeq(out, 1, 4) =
                      << <<"/fill", -12, 0, -12, 12, 10, -12, block>>,
                         <<"/fill", -12, 0, 12, 12, 10, 12, block>>,
                         <<"/fill", -12, 0, -12, -12, 10, 12, block>>,
                         <<"/fill", 12, 0, -12, 12, 10, 12, block>> >>

C5_Witness ==
    /\ genLast # None
    /\ self.size = 25 /\ self.height = 10
    /\ genLast[1].args = <<0, 0, 0>>
    /\ genLast[1].out[4] = <<"/fill", 12, 0, -12, 12, 10, 12,
                             "minecraft:" \o self.block_type>>

\* C6: the box after_reset builds is centred on the agent's position after
\* reset: the x/z midpoint of the submitted fill regions is the agent's x/z.
C6_CenteredOnAgent ==
    pc = "returned" =>
        LET xs == UNION { {X1(attempts[i]), X2(attempts[i])} : i \in 1..Len(attempts) }
            zs == UNION { {Z1(attempts[i]), Z2(attempts[i])} : i \in 1..Len(attempts) }
        IN  /\ SetMin(xs) + SetMax(xs) = 2 * agentPos[1]
            /\ SetMin(zs) + SetMax(zs) = 2 * agentPos[2]

\* The instance create_from_conf is to build from a barrier_box mapping
ExpectedFromConf(bc) ==
    [size |-> Get(bc, "size", 25),
     height |-> Get(bc, "height", 10),
     block_type |-> Get(bc, "block_type", "barrier"),
     include_floor |-> Get(bc, "include_floor", FALSE),
     include_ceiling |-> Get(bc, "include_ceiling", FALSE)]

\* C7 as stated: without the barrier_box key create_from_conf returns None;
\* with it, it returns a callback with the given values and the defaults for
\* the missing keys.
C7_FactoryAlwaysReturns ==
    (outcome # None /\ outcome[1].op = "create_from_conf") =>
        LET o == outcome[1]
        IN  IF "barrier_box" \in DOMAIN o.input
            THEN o.ok /\ o.ret = Some(ExpectedFromConf(o.input["barrier_box"]))
            ELSE o.ok /\ o.ret = None

\* C7 amended: without the barrier_box key create_from_conf returns None;
\* with it and a block_type (given or defaulted) among the three valid ones, it
\* returns a callback with the given values and the defaults for the missing
\* keys; with it and any other block_type the ValueError of the constructor
\* leaves create_from_conf and nothing is returned.
C7_FactoryDefaults ==
    (outcome # None /\ outcome[1].op = "create_from_conf") =>
        LET o == outcome[1]
        IN  IF "barrier_box" \notin DOMAIN o.input
            THEN o.ok /\ o.ret = None /\ o.exc = None /\ callback = None
            ELSE LET e == ExpectedFromConf(o.input["barrier_box"])
                 IN  IF e.block_type \in {"barrier", "bedrock", "glass"}
                     THEN o.ok /\ o.ret = Some(e) /\ callback = Some(e)
                     ELSE /\ ~o.ok /\ o.ret = None /\ callback = None
                          /\ o.exc # None
                          /\ o.exc[1].kind = "ValueError"
                          /\ o.exc[1].msg.got = e.block_type

C7_Witness ==
    /\ outcome # None
    /\ outcome[1].op = "create_from_conf"
    /\ "barrier_box" \in DOMAIN outcome[1].input
    /\ DOMAIN outcome[1].input["barrier_box"] = {}
    /\ callback = Some([size |-> 25, height |-> 10, block_type |-> "barrier",
                        include_floor |-> FALSE, include_ceiling |-> FALSE])

C9_FailurePropagates ==
    exc # None =>
        LET k == exc[1].at
        IN  /\ pc = "raised"
            /\ attempts = SubSeq(commands, 1, k)
            /\ world = SubSeq(commands, 1, k - 1)
            /\ Len(results) = k - 1
            /\ wrapCalls = <<>>
            /\ ret = None

C9_Witness ==
    /\ pc = "raised"
    /\ exc # None
    /\ exc[1].at = 5
    /\ Len(world) = 4
    /\ Len(commands) = 6

\* C10: in a reset where every command succeeds, _wrap_obs_info is called
\* exactly once, after the last command, with the obs and info the last
\* command returned (never those after_reset was called with), and after_reset
\* returns the pair that call produces.
C10_WrapAfterLastCommand ==
    /\ wrapCalls # <<>> =>
          /\ pc = "returned"
          /\ attempts = commands /\ world = commands
          /\ Len(results) = Len(commands)
    /\ pc = "returned" =>
          /\ Len(wrapCalls) = 1
          /\ Len(commands) >= 4
          /\ wrapCalls[1] = << Some(results[Len(results)][1]),
                               Some(results[Len(results)][2]) >>
          /\ wrapCalls[1][1] # argObs
          /\ wrapCalls[1][2] # argInfo
          /\ ret = Some(_wrap_obs_info(wrapCalls[1][1], wrapCalls[1][2]))
          /\ ret[1][1].wrapped # argObs
          /\ ret[1][2].wrapped # argInfo

C10_Witness ==
    /\ pc = "returned"
    /\ ret # None
    /\ Len(wrapCalls) = 1
    /\ Len(results) = 6
    /\ agentPos = <<1, 1>>

=============================================================================
